---- MODULE Spec2Model ----
(***************************************************************************)
(* metal-soy-loader (src/src/index.js): a webpack loader that compiles a   *)
(* soy template through compileSoy, resolving the template's soy           *)
(* dependencies from its call graph and caching the compiled output in    *)
(* .soycache keyed by the md5 of the contents webpack supplies.            *)
(*                                                                         *)
(* Strings that the code takes apart (resource paths) are sequences of     *)
(* one-character strings.  Other texts are opaque values.                  *)
(***************************************************************************)
EXTENDS Integers, Sequences, FiniteSets, TLC

VARIABLES
    files,        \* the template files on disk: path -> NoFile, Malformed or a soy file
    soyAstCache,  \* const soyAstCache = {}   (index.js:14)
    globsCache,   \* const globsCache = {}    (index.js:10)
    fileHashMap,  \* const fileHashMap = {}   (index.js:12)
    soycache,     \* the files under cacheDir (index.js:16), by resource path
    inv,          \* the loader invocations: slot -> position and locals of metalSoyLoader
    ev,           \* history: what the latest step of the loader did
    lastInv,      \* history: per resource path, the latest invocation that delivered output
    res,          \* result of the latest dependency resolution
    lookup        \* history of getParsedSoyByNamespace results, per namespace

vars == <<files, soyAstCache, globsCache, fileHashMap, soycache, inv, ev, lastInv, res, lookup>>

-----------------------------------------------------------------------------
(* Bounds *)

\* longest list of call nodes in one template of the dependency specification
MaxCallLen == 2

\* loader invocations whose compilation is pending at the same time
MaxPending == 2

-----------------------------------------------------------------------------
(* Strings and paths *)

DotJs == <<".", "j", "s">>
DotSoy == <<".", "s", "o", "y">>

Soy(name) == <<name>> \o DotSoy

PathA == Soy("a")
PathB == Soy("b")
PathC == Soy("c")

Paths == {PathA, PathB, PathC}

\* String.prototype.indexOf: 0-based index of the first occurrence, or -1
indexOf(s, t) ==
    LET hits == {i \in 0..(Len(s) - Len(t)) : SubSeq(s, i + 1, i + Len(t)) = t}
    IN IF hits = {} THEN -1 ELSE CHOOSE i \in hits : \A j \in hits : i <= j

\* String.prototype.substring(from, to), arguments clamped to 0..length
substring(s, from, to) ==
    LET clamp(n) == IF n < 0 THEN 0 ELSE IF n > Len(s) THEN Len(s) ELSE n
        lo == IF clamp(from) <= clamp(to) THEN clamp(from) ELSE clamp(to)
        hi == IF clamp(from) <= clamp(to) THEN clamp(to) ELSE clamp(from)
    IN SubSeq(s, lo + 1, hi)

\* path.extname: from the last "." of the last path segment to the end; empty
\* when there is no "." or the segment starts with its only "."
extname(p) ==
    LET slashes == {i \in 1..Len(p) : p[i] = "/"}
        start == IF slashes = {} THEN 1
                 ELSE 1 + CHOOSE i \in slashes : \A j \in slashes : j <= i
        dots == {i \in start..Len(p) : p[i] = "."}
        lastDot == CHOOSE i \in dots : \A j \in dots : j <= i
    IN IF dots = {} THEN <<>>
       ELSE IF lastDot = start THEN <<>>
       ELSE SubSeq(p, lastDot, Len(p))

\* metalSoyLoader, lines 23-27: the resource path the loader works with
normalizedPath(resourcePath) ==
    IF extname(resourcePath) = DotJs
    THEN substring(resourcePath, 0, indexOf(resourcePath, DotJs))
    ELSE resourcePath

-----------------------------------------------------------------------------
(* Template files and their parsed form *)

NoFile == [exists |-> FALSE]
Malformed == [exists |-> TRUE, valid |-> FALSE]
SoyFile(ns, calls) == [exists |-> TRUE, valid |-> TRUE, namespace |-> ns, calls |-> calls]

\* JavaScript undefined where an AST is expected
NoAst == [undefined |-> TRUE]

\* a call node without a namespace qualifier (a call to a template of the same file)
Local == ""

\* soyparser(text): the AST of a well-formed template; it exposes the declared
\* namespace and the call nodes, each with its namespace qualifier or Local
soyparser(file) == [namespace |-> file.namespace, calls |-> file.calls]

\* fs.readFileSync followed by soyparser succeeds
CanParse(file) == file.exists /\ file.valid

\* traverse.visit(ast, {Call: ...}): the call nodes the visitor is handed, in
\* source order; none when there is no AST to walk
traverseVisit(soyAst) == IF soyAst = NoAst THEN <<>> ELSE soyAst.calls

\* Array.prototype.indexOf(x) > -1
includes(seq, x) == \E i \in 1..Len(seq) : seq[i] = x

\* a getParsedSoy that parses the file again whenever it can be parsed
getParsedSoyReparsing(cache, filePath) ==
    IF CanParse(files[filePath])
    THEN LET soyAst == soyparser(files[filePath])
         IN [cache |-> [cache EXCEPT ![filePath] = soyAst], threw |-> FALSE, ast |-> soyAst]
    ELSE IF cache[filePath] # NoAst
    THEN [cache |-> cache, threw |-> FALSE, ast |-> cache[filePath]]
    ELSE [cache |-> cache, threw |-> TRUE, ast |-> NoAst]

\* getParsedSoy(filePath), with the AST cache threaded through
getParsedSoy(cache, filePath) ==
    IF cache[filePath] # NoAst
    THEN [cache |-> cache, threw |-> FALSE, ast |-> cache[filePath]]
    ELSE IF CanParse(files[filePath])
    THEN LET soyAst == soyparser(files[filePath])
         IN [cache |-> [cache EXCEPT ![filePath] = soyAst], threw |-> FALSE, ast |-> soyAst]
    ELSE [cache |-> cache, threw |-> TRUE, ast |-> NoAst]

RECURSIVE byNamespaceLoop(_, _, _, _, _)
\* the forEach of getParsedSoyByNamespace from index i on
byNamespaceLoop(cache, namespace, filePaths, i, parsedSoy) ==
    IF i > Len(filePaths)
    THEN [cache |-> cache, threw |-> FALSE, ast |-> parsedSoy]
    ELSE LET r == getParsedSoy(cache, filePaths[i])
         IN IF r.threw
            THEN [cache |-> r.cache, threw |-> TRUE, ast |-> NoAst]
            ELSE byNamespaceLoop(r.cache, namespace, filePaths, i + 1,
                                 IF r.ast.namespace = namespace THEN r.ast ELSE parsedSoy)

\* a lookup that raises an error when no file declares the namespace
getParsedSoyByNamespaceStrict(cache, namespace, filePaths) ==
    LET r == byNamespaceLoop(cache, namespace, filePaths, 1, NoAst)
    IN IF ~r.threw /\ r.ast = NoAst THEN [r EXCEPT !.threw = TRUE] ELSE r

RECURSIVE firstMatchLoop(_, _, _, _)
firstMatchLoop(cache, namespace, filePaths, i) ==
    IF i > Len(filePaths)
    THEN [cache |-> cache, threw |-> FALSE, ast |-> NoAst]
    ELSE LET r == getParsedSoy(cache, filePaths[i])
         IN IF r.threw
            THEN [cache |-> r.cache, threw |-> TRUE, ast |-> NoAst]
            ELSE IF r.ast.namespace = namespace
            THEN [cache |-> r.cache, threw |-> FALSE, ast |-> r.ast]
            ELSE firstMatchLoop(r.cache, namespace, filePaths, i + 1)

\* a lookup that stops at the first file declaring the namespace
getParsedSoyByNamespaceFirst(cache, namespace, filePaths) ==
    firstMatchLoop(cache, namespace, filePaths, 1)

\* getParsedSoyByNamespace(namespace, filePaths)
getParsedSoyByNamespace(cache, namespace, filePaths) ==
    byNamespaceLoop(cache, namespace, filePaths, 1, NoAst)

RECURSIVE getExternalSoyCalls(_, _, _, _)
RECURSIVE forEachCall(_, _, _, _, _, _)

\* an extraction that collects the template's own calls and does not recurse
getExternalSoyCallsDirect(cache, soyAst, filePaths, depth) ==
    [cache |-> cache, threw |-> FALSE, overflow |-> FALSE,
     calls |-> SelectSeq(traverseVisit(soyAst), LAMBDA node : node # Local)]

\* an extraction that does not follow a template's calls to its own namespace
getExternalSoyCallsNoSelf(cache, soyAst, filePaths, depth) ==
    IF depth = 0
    THEN [cache |-> cache, threw |-> FALSE, overflow |-> TRUE, calls |-> <<>>]
    ELSE LET calls == SelectSeq(traverseVisit(soyAst),
                                LAMBDA node : node # Local /\ node # soyAst.namespace)
         IN forEachCall(cache, calls, 1, calls, filePaths, depth)

\* getExternalSoyCalls(soyAst, filePaths).  depth is the number of stack frames
\* still available: the recursion has no cycle guard, and running out of
\* frames is reported as overflow.
getExternalSoyCalls(cache, soyAst, filePaths, depth) ==
    IF depth = 0
    THEN [cache |-> cache, threw |-> FALSE, overflow |-> TRUE, calls |-> <<>>]
    ELSE LET calls == SelectSeq(traverseVisit(soyAst), LAMBDA node : node # Local)
         IN forEachCall(cache, calls, 1, calls, filePaths, depth)

\* calls.forEach(namespace => calls = getExternalSoyCalls(...).concat(calls)),
\* iterating the array the visitor filled (orig) from index i on
forEachCall(cache, orig, i, calls, filePaths, depth) ==
    IF i > Len(orig)
    THEN [cache |-> cache, threw |-> FALSE, overflow |-> FALSE, calls |-> calls]
    ELSE LET found == getParsedSoyByNamespace(cache, orig[i], filePaths)
         IN IF found.threw
            THEN [cache |-> found.cache, threw |-> TRUE, overflow |-> FALSE, calls |-> <<>>]
            ELSE LET inner == getExternalSoyCalls(found.cache, found.ast, filePaths, depth - 1)
                 IN IF inner.threw \/ inner.overflow
                    THEN inner
                    ELSE forEachCall(inner.cache, orig, i + 1, inner.calls \o calls,
                                     filePaths, depth)

\* Stack frames that suffice for every acyclic call graph over filePaths: the
\* entry template, one frame per candidate file, and a last frame for a
\* namespace that no file declares.  A deeper recursion repeats an AST and so
\* never returns.
StackDepth(filePaths) == Len(filePaths) + 2

RECURSIVE filterLoop(_, _, _, _, _)
\* the filter of resolveInternalSoyDeps from index i on
filterLoop(cache, filePaths, externalCalls, i, kept) ==
    IF i > Len(filePaths)
    THEN [cache |-> cache, threw |-> FALSE, deps |-> kept]
    ELSE LET r == getParsedSoy(cache, filePaths[i])
         IN IF r.threw
            THEN [cache |-> r.cache, threw |-> TRUE, deps |-> <<>>]
            ELSE filterLoop(r.cache, filePaths, externalCalls, i + 1,
                            IF includes(externalCalls, r.ast.namespace)
                            THEN Append(kept, filePaths[i]) ELSE kept)

\* resolveInternalSoyDeps(filePaths, externalCalls)
resolveInternalSoyDeps(cache, filePaths, externalCalls) ==
    filterLoop(cache, filePaths, externalCalls, 1, <<>>)

\* metalSoyLoader, lines 40-45: parse the entry, extract its external calls
\* over srcPaths and resolve the internal dependencies.
\* outcome: "ok", "threw" (a read or parse failure) or "overflow" (the
\* recursion of getExternalSoyCalls does not return)
internalSoyDeps(cache, resourcePath, srcPaths) ==
    LET entry == getParsedSoy(cache, resourcePath)
        ext == getExternalSoyCalls(entry.cache, entry.ast, srcPaths, StackDepth(srcPaths))
        deps == resolveInternalSoyDeps(ext.cache, srcPaths, ext.calls)
    IN IF entry.threw
       THEN [outcome |-> "threw", cache |-> entry.cache, calls |-> <<>>, deps |-> <<>>]
       ELSE IF ext.threw
       THEN [outcome |-> "threw", cache |-> ext.cache, calls |-> <<>>, deps |-> <<>>]
       ELSE IF ext.overflow
       THEN [outcome |-> "overflow", cache |-> ext.cache, calls |-> <<>>, deps |-> <<>>]
       ELSE IF deps.threw
       THEN [outcome |-> "threw", cache |-> deps.cache, calls |-> ext.calls, deps |-> <<>>]
       ELSE [outcome |-> "ok", cache |-> deps.cache, calls |-> ext.calls, deps |-> deps.deps]

-----------------------------------------------------------------------------
(* Values of the loader *)

\* JavaScript undefined where a text is expected
Undefined == <<"#undefined">>

\* the empty string
EmptyText == <<>>

\* what fs.writeFileSync stores for undefined where it coerces its data to a string
UndefinedText == <<"undefined">>

\* no file at a path of the cache directory
NoCacheFile == <<"#ENOENT">>

\* no entry in fileHashMap
NoHash == <<>>

\* no entry in globsCache
NoGlob == <<Undefined>>

\* md5(contents): a digest, distinct for distinct contents of the model
md5(contents) == <<"md5", contents>>

\* the module compileSoy emits for a template with the given contents
Compiled(contents) == <<"js", contents>>

\* JavaScript truthiness of a text or undefined
Truthy(v) == v # Undefined /\ v # EmptyText

\* option values of the webpack configuration
OptUndefined == [t |-> "undefined"]
OptString(str) == [t |-> "string", v |-> str]
OptArray(arr) == [t |-> "array", v |-> arr]

\* glob patterns are strings the code never takes apart
DefaultSrc == <<"src/**/*.soy">>
DefaultSoyDeps == <<"node_modules/metal*/src/**/*.soy">>
OtherSrc == <<"lib/*.soy">>

Patterns == {DefaultSrc, OtherSrc, DefaultSoyDeps}

\* setDefaults(loaderOptions)
setDefaults(loaderOptions) ==
    LET soyDeps == IF loaderOptions.soyDeps = OptUndefined
                   THEN OptString(DefaultSoyDeps) ELSE loaderOptions.soyDeps
        src == IF loaderOptions.src = OptUndefined
               THEN OptString(DefaultSrc) ELSE loaderOptions.src
    IN [soyDeps |-> IF soyDeps.t = "string" THEN OptArray(<<soyDeps.v>>) ELSE soyDeps,
        src |-> src]

\* the files a pattern can match, in the order glob.sync lists them
GlobOrder(pattern) ==
    IF pattern = DefaultSrc THEN <<PathA, PathB, PathC>> ELSE <<PathC>>

\* glob.sync(pattern).map(filePath => path.resolve(filePath)): the files that
\* match now
globSync(pattern) == SelectSeq(GlobOrder(pattern), LAMBDA p : files[p].exists)

\* a resolution that takes an empty stored list for a missing one and scans again
resolveGlobNonEmpty(cache, pattern) ==
    IF cache[pattern] = NoGlob \/ cache[pattern] = <<>>
    THEN LET list == globSync(pattern)
         IN [cache |-> [cache EXCEPT ![pattern] = list], list |-> list, scanned |-> TRUE]
    ELSE [cache |-> cache, list |-> cache[pattern], scanned |-> FALSE]

\* resolveGlob(pattern), with globsCache threaded through
resolveGlob(cache, pattern) ==
    IF cache[pattern] = NoGlob
    THEN LET list == globSync(pattern)
         IN [cache |-> [cache EXCEPT ![pattern] = list], list |-> list, scanned |-> TRUE]
    ELSE [cache |-> cache, list |-> cache[pattern], scanned |-> FALSE]

\* readFromCache(resourcePath): fs.readFileSync throws when the file is missing
readFromCache(disk, resourcePath) ==
    [threw |-> disk[resourcePath] = NoCacheFile, text |-> disk[resourcePath]]

\* a lookup that reads the persisted output whatever the stored hash is
getCachedResultAnyHash(map, disk, resourcePath, curHash) ==
    LET cached == readFromCache(disk, resourcePath)
    IN [result |-> IF ~cached.threw THEN cached.text ELSE Undefined,
        read |-> TRUE,
        map |-> [map EXCEPT ![resourcePath] = curHash]]

\* a lookup that stores the hash only when it found a result
getCachedResultHashOnHit(map, disk, resourcePath, curHash) ==
    LET prevHash == map[resourcePath]
        valid == prevHash = NoHash \/ curHash = prevHash
        cached == readFromCache(disk, resourcePath)
        found == valid /\ ~cached.threw
    IN [result |-> IF found THEN cached.text ELSE Undefined,
        read |-> valid,
        map |-> IF found THEN [map EXCEPT ![resourcePath] = curHash] ELSE map]

\* a lookup with the comparison of the hashes inverted
getCachedResultInverted(map, disk, resourcePath, curHash) ==
    LET prevHash == map[resourcePath]
        valid == prevHash = NoHash \/ curHash # prevHash
        cached == readFromCache(disk, resourcePath)
    IN [result |-> IF valid /\ ~cached.threw THEN cached.text ELSE Undefined,
        read |-> valid,
        map |-> [map EXCEPT ![resourcePath] = curHash]]

\* getCachedResult(resourcePath, curHash), with fileHashMap threaded through
getCachedResult(map, disk, resourcePath, curHash) ==
    LET prevHash == map[resourcePath]
        valid == prevHash = NoHash \/ curHash = prevHash
        cached == readFromCache(disk, resourcePath)
    IN [result |-> IF valid /\ ~cached.threw THEN cached.text ELSE Undefined,
        read |-> valid,
        map |-> [map EXCEPT ![resourcePath] = curHash]]

\* writeToCache(resourcePath, contents) for a text
writeToCache(disk, resourcePath, contents) == [disk EXCEPT ![resourcePath] = contents]

-----------------------------------------------------------------------------
(* The loader specification: invocations of metalSoyLoader and the events  *)
(* of the compileSoy stream                                                *)

\* resource paths webpack hands to the loader: a.soy.js and b.soy
RawPaths == {PathA \o DotJs, PathB}

\* contents webpack hands to the loader
Contents == {"c1", "c2"}

\* the path the loader works with, for each resource path (lines 23-27)
ResourcePathOf == [raw \in RawPaths |-> normalizedPath(raw)]

\* the contents it hands over for a resource: b.soy is edited during the run
ContentsOf(raw) == IF ResourcePathOf[raw] = PathB THEN Contents ELSE {"c1"}

\* errors the compileSoy stream may emit
Errors == {"e1", "e2"}

\* the loader options of the webpack configuration
LoaderOptionSets ==
    {[src |-> OptUndefined, soyDeps |-> OptUndefined],
     [src |-> OptString(DefaultSrc), soyDeps |-> OptArray(<<>>)]}

NoRes == [entry |-> <<>>, outcome |-> "none", calls |-> <<>>, deps |-> <<>>]

Slots == 1..MaxPending

Idle == [st |-> "idle"]

\* no output delivered
NoOut == <<"#none">>

\* the first argument of loaderCallback on success
NoErr == "null"

NoEv ==
    [kind |-> "init", path |-> <<>>, contents |-> "", prevHash |-> NoHash,
     read |-> FALSE, async |-> FALSE, cb |-> <<>>, result |-> Undefined,
     soyDeps |-> <<>>, external |-> <<>>, emitted |-> NoErr, prior |-> NoOut,
     priorAny |-> NoOut]

\* lastInv[path]: the contents and the output of the latest invocation for the
\* path that delivered an output text (returned from the cache or handed to
\* the callback) and ran from start to finish with no other invocation for
\* the path in flight; fresh while no invocation for the path has started since
NoInv == [contents |-> "", out |-> NoOut, fresh |-> FALSE]

\* the templates on disk during a run of the loader: a calls b; or b calls
\* back into a; or b is malformed
LoaderFiles ==
    {[p \in Paths |-> IF p = PathA THEN SoyFile("na", <<"nb">>)
                      ELSE IF p = PathB THEN b ELSE NoFile] :
        b \in {SoyFile("nb", <<>>), SoyFile("nb", <<"na">>), Malformed}}

Init ==
    /\ files \in LoaderFiles
    /\ soyAstCache = [p \in Paths |-> NoAst]
    /\ globsCache = [pattern \in Patterns |-> NoGlob]
    /\ fileHashMap = [p \in Paths |-> NoHash]
    /\ soycache \in {[p \in Paths |-> IF p = PathA THEN left ELSE NoCacheFile] :
                        left \in {NoCacheFile, Compiled("c0")}}
    /\ inv = [i \in Slots |-> Idle]
    /\ ev = NoEv
    /\ lastInv = [p \in Paths |-> NoInv]
    /\ res = NoRes
    /\ lookup = <<>>

FreeSlots == {i \in Slots : inv[i].st = "idle"}

\* the lookup of the invocation, line 31
cachedResult(resourcePath, curHash) ==
    getCachedResult(fileHashMap, soycache, resourcePath, curHash)

\* the steps after the lookup with the early return left out: the globs are
\* resolved and the templates parsed also when a cached result is returned
afterLookupEager(result, resourcePath, loaderOptions) ==
    LET srcPaths == resolveGlob(globsCache, loaderOptions.src.v)
        deps == internalSoyDeps(soyAstCache, resourcePath, srcPaths.list)
    IN [outcome |-> IF Truthy(result) THEN "return" ELSE
                    IF deps.outcome = "ok" THEN "compile" ELSE deps.outcome,
        globsCache |-> srcPaths.cache, soyAstCache |-> deps.cache,
        soyDeps |-> IF Truthy(result) THEN <<>> ELSE loaderOptions.soyDeps.v \o deps.deps]

\* the steps after the lookup with the first external dependency pattern
\* resolved through resolveGlob and its files handed to compileSoy
afterLookupResolving(result, resourcePath, loaderOptions) ==
    IF Truthy(result)
    THEN [outcome |-> "return", globsCache |-> globsCache, soyAstCache |-> soyAstCache,
          soyDeps |-> <<>>]
    ELSE LET srcPaths == resolveGlob(globsCache, loaderOptions.src.v)
             deps == internalSoyDeps(soyAstCache, resourcePath, srcPaths.list)
             none == loaderOptions.soyDeps.v = <<>>
             ext == resolveGlob(srcPaths.cache,
                                IF none THEN loaderOptions.src.v
                                ELSE loaderOptions.soyDeps.v[1])
         IN [outcome |-> IF deps.outcome = "ok" THEN "compile" ELSE deps.outcome,
             globsCache |-> ext.cache, soyAstCache |-> deps.cache,
             soyDeps |-> (IF none THEN <<>> ELSE ext.list) \o deps.deps]

\* metalSoyLoader, lines 33-47: return the cached result, or resolve the src
\* glob, extract the dependencies and build the soyDeps handed to compileSoy.
\* outcome: "return", "compile", or "threw"/"overflow" when the extraction
\* does not return
afterLookup(result, resourcePath, loaderOptions) ==
    IF Truthy(result)
    THEN [outcome |-> "return", globsCache |-> globsCache, soyAstCache |-> soyAstCache,
          soyDeps |-> <<>>]
    ELSE LET srcPaths == resolveGlob(globsCache, loaderOptions.src.v)
             deps == internalSoyDeps(soyAstCache, resourcePath, srcPaths.list)
         IN [outcome |-> IF deps.outcome = "ok" THEN "compile" ELSE deps.outcome,
             globsCache |-> srcPaths.cache, soyAstCache |-> deps.cache,
             soyDeps |-> loaderOptions.soyDeps.v \o deps.deps]

\* metalSoyLoader(contents) with this.resourcePath = raw and the given options
metalSoyLoader(raw, contents, options) ==
    \E cached \in {cachedResult(ResourcePathOf[raw], md5(contents))} :
    \E run \in {afterLookup(cached.result, ResourcePathOf[raw], setDefaults(options))} :
    LET resourcePath == ResourcePathOf[raw]
        exclusive == \A i \in Slots : inv[i].st = "pending" => inv[i].path # resourcePath
        slot == CHOOSE i \in FreeSlots : \A j \in FreeSlots : i <= j
        step == [NoEv EXCEPT !.kind = run.outcome,
                             !.path = resourcePath, !.contents = contents,
                             !.prevHash = fileHashMap[resourcePath],
                             !.read = cached.read,
                             !.result = cached.result,
                             !.async = run.outcome # "return",
                             !.soyDeps = run.soyDeps,
                             !.external = IF run.outcome = "compile"
                                          THEN setDefaults(options).soyDeps.v
                                          ELSE <<>>,
                             !.prior = IF /\ lastInv[resourcePath].fresh
                                          /\ lastInv[resourcePath].contents = contents
                                       THEN lastInv[resourcePath].out ELSE NoOut,
                             !.priorAny = IF /\ exclusive
                                             /\ lastInv[resourcePath].contents = contents
                                          THEN lastInv[resourcePath].out ELSE NoOut]
        \* an invocation that starts makes the pending ones on its path stale
        stale == [i \in Slots |->
                    IF inv[i].st = "pending" /\ inv[i].path = resourcePath
                    THEN [inv[i] EXCEPT !.latest = FALSE] ELSE inv[i]]
    IN /\ run.outcome = "compile" => FreeSlots # {}
       /\ fileHashMap' = cached.map
       /\ globsCache' = run.globsCache
       /\ soyAstCache' = run.soyAstCache
       /\ ev' = step
       /\ inv' = IF run.outcome = "compile"
                 THEN [stale EXCEPT ![slot] = [st |-> "pending", path |-> resourcePath,
                                               contents |-> contents,
                                               result |-> cached.result,
                                               latest |-> exclusive]]
                 ELSE stale
       /\ lastInv' = IF run.outcome = "return"
                     THEN [lastInv EXCEPT ![resourcePath] =
                             IF exclusive
                             THEN [contents |-> contents, out |-> cached.result,
                                   fresh |-> TRUE]
                             ELSE NoInv]
                     ELSE [lastInv EXCEPT ![resourcePath].fresh = FALSE]
       /\ UNCHANGED <<files, soycache, res, lookup>>

\* the texts a data event of the compileSoy stream may carry: the compiled
\* module, which is never the empty string
CompilerTexts(contents) == {Compiled(contents)}

\* stream.on('data', file => ...)
onData(slot, text) ==
    /\ inv[slot].st = "pending"
    /\ text \in CompilerTexts(inv[slot].contents)
    /\ inv' = [inv EXCEPT ![slot].result = text]
    /\ ev' = [NoEv EXCEPT !.kind = "data", !.path = inv[slot].path,
                          !.contents = inv[slot].contents, !.result = text]
    /\ UNCHANGED <<files, soyAstCache, globsCache, fileHashMap, soycache,
                   lastInv, res, lookup>>

\* loaderCallback(err, result): the calls the caller receives
loaderCallback(err, result) == <<[err |-> err, result |-> result]>>

\* an end handler that calls the callback first and writes the cache afterwards
onEndNotifyFirst(slot, written) ==
    LET cur == inv[slot]
        step == [NoEv EXCEPT !.path = cur.path, !.contents = cur.contents,
                             !.result = cur.result, !.async = TRUE,
                             !.cb = loaderCallback(NoErr, cur.result)]
        stored == IF cur.result = Undefined THEN UndefinedText ELSE cur.result
    IN /\ cur.st = "pending"
       /\ inv' = [inv EXCEPT ![slot] = Idle]
       /\ UNCHANGED <<files, soyAstCache, globsCache, fileHashMap, res, lookup>>
       /\ IF ~written
          THEN /\ ev' = [step EXCEPT !.kind = "crash"]
               /\ UNCHANGED <<soycache, lastInv>>
          ELSE /\ soycache' = writeToCache(soycache, cur.path, stored)
               /\ ev' = [step EXCEPT !.kind = "end"]
               /\ lastInv' = [lastInv EXCEPT ![cur.path] =
                                IF cur.result # Undefined /\ cur.latest
                                THEN [contents |-> cur.contents, out |-> cur.result,
                                      fresh |-> TRUE]
                                ELSE NoInv]

\* stream.on('end', file => ...).  written: writeToCache returns; it throws
\* when fs.ensureDirSync or fs.writeFileSync fails, and
\* fs.writeFileSync(filePath, undefined) stores "undefined" or throws a
\* TypeError, depending on the Node release.
onEnd(slot, written) ==
    LET cur == inv[slot]
        step == [NoEv EXCEPT !.path = cur.path, !.contents = cur.contents,
                             !.result = cur.result, !.async = TRUE]
        stored == IF cur.result = Undefined THEN UndefinedText ELSE cur.result
    IN /\ cur.st = "pending"
       /\ inv' = [inv EXCEPT ![slot] = Idle]
       /\ UNCHANGED <<files, soyAstCache, globsCache, fileHashMap, res, lookup>>
       /\ IF ~written
          THEN \* writeToCache throws: the handler ends before the callback
               /\ ev' = [step EXCEPT !.kind = "crash"]
               /\ UNCHANGED <<soycache, lastInv>>
          ELSE /\ soycache' = writeToCache(soycache, cur.path, stored)
               /\ ev' = [step EXCEPT !.kind = "end",
                                     !.cb = loaderCallback(NoErr, cur.result)]
               /\ lastInv' = [lastInv EXCEPT ![cur.path] =
                                IF cur.result # Undefined /\ cur.latest
                                THEN [contents |-> cur.contents, out |-> cur.result,
                                      fresh |-> TRUE]
                                ELSE NoInv]

\* an error handler that also persists what the stream produced so far
onErrorPersisting(slot, err) ==
    LET cur == inv[slot]
    IN /\ cur.st = "pending"
       /\ inv' = [inv EXCEPT ![slot] = Idle]
       /\ soycache' = writeToCache(soycache, cur.path,
                                   IF cur.result = Undefined THEN UndefinedText
                                   ELSE cur.result)
       /\ ev' = [NoEv EXCEPT !.kind = "error", !.path = cur.path,
                             !.contents = cur.contents, !.result = cur.result,
                             !.async = TRUE, !.emitted = err,
                             !.cb = loaderCallback(err, Undefined)]
       /\ UNCHANGED <<files, soyAstCache, globsCache, fileHashMap,
                      lastInv, res, lookup>>

\* compileSoy({soyDeps}).on('error', loaderCallback)
onError(slot, err) ==
    LET cur == inv[slot]
    IN /\ cur.st = "pending"
       /\ inv' = [inv EXCEPT ![slot] = Idle]
       /\ ev' = [NoEv EXCEPT !.kind = "error", !.path = cur.path,
                             !.contents = cur.contents, !.result = cur.result,
                             !.async = TRUE, !.emitted = err,
                             !.cb = loaderCallback(err, Undefined)]
       /\ UNCHANGED <<files, soyAstCache, globsCache, fileHashMap, soycache,
                      lastInv, res, lookup>>

Next ==
    \/ \E raw \in RawPaths, options \in LoaderOptionSets :
          \E contents \in ContentsOf(raw) : metalSoyLoader(raw, contents, options)
    \/ \E slot \in Slots, text \in UNION {CompilerTexts(c) : c \in Contents} :
          onData(slot, text)
    \/ \E slot \in Slots, written \in BOOLEAN : onEnd(slot, written)
    \/ \E slot \in Slots, err \in Errors : onError(slot, err)

Spec == Init /\ [][Next]_vars

-----------------------------------------------------------------------------
(* The dependency specification: getExternalSoyCalls and                   *)
(* resolveInternalSoyDeps applied to every small set of templates          *)

\* the src file list of the dependency specification, in glob order
SrcList == <<PathA, PathB, PathC>>

\* the namespaces a template of the dependency specification may declare:
\* all distinct, PathC sharing the namespace of PathB, or PathC declaring a
\* namespace nobody calls (which leaves "nc" undeclared)
DeclaredBy ==
    [p \in Paths |-> IF p = PathA THEN {"na"}
                     ELSE IF p = PathB THEN {"nb"}
                     ELSE {"nb", "nc", "nd"}]

\* the namespace qualifiers of its call nodes
CallTargets == {"nb", "nc", Local}

CallLists == UNION {[1..n -> CallTargets] : n \in 0..MaxCallLen}

EmptyAstCache == [p \in Paths |-> NoAst]

\* the module state nothing of the dependency specification touches
LoaderIdle ==
    /\ globsCache = <<>>
    /\ fileHashMap = <<>>
    /\ soycache = <<>>
    /\ inv = <<>>
    /\ ev = <<>>
    /\ lastInv = <<>>
    /\ lookup = <<>>

InitDeps ==
    /\ \E nsB \in DeclaredBy[PathB], nsC \in DeclaredBy[PathC], ca, cb, cc \in CallLists :
          files = [p \in Paths |-> IF p = PathA THEN SoyFile("na", ca)
                                   ELSE IF p = PathB THEN SoyFile(nsB, cb)
                                   ELSE SoyFile(nsC, cc)]
    /\ soyAstCache = EmptyAstCache
    /\ res = NoRes
    /\ LoaderIdle

\* metalSoyLoader lines 40-45 for one entry template over SrcList
Resolve(entry) ==
    LET r == internalSoyDeps(soyAstCache, entry, SrcList)
    IN /\ res = NoRes
       /\ soyAstCache' = r.cache
       /\ res' = [entry |-> entry, outcome |-> r.outcome, calls |-> r.calls, deps |-> r.deps]
       /\ UNCHANGED <<files, globsCache, fileHashMap, soycache, inv, ev, lastInv, lookup>>

NextDeps == \E entry \in Paths : Resolve(entry)

SpecDeps == InitDeps /\ [][NextDeps]_vars

-----------------------------------------------------------------------------
(* The call graph of the templates, defined from the files alone *)

SeqToSet(seq) == {seq[i] : i \in 1..Len(seq)}

\* the namespaces a template names in explicitly qualified calls
QualifiedCalls(p) == SeqToSet(files[p].calls) \ {Local}

Declares(n) == {p \in SeqToSet(SrcList) : files[p].namespace = n}

\* the last file of SrcList that declares n
LastDeclaring(n) ==
    CHOOSE p \in Declares(n) :
        \A i, j \in 1..Len(SrcList) :
            (SrcList[i] = p /\ SrcList[j] \in Declares(n)) => j <= i

CalledFrom(S) ==
    S \cup UNION {QualifiedCalls(LastDeclaring(n)) : n \in {m \in S : Declares(m) # {}}}

RECURSIVE Closure(_, _)
Closure(S, k) == IF k = 0 THEN S ELSE Closure(CalledFrom(S), k - 1)

\* the namespaces reachable from template p by one or more qualified calls
ReachNs(p) == Closure(QualifiedCalls(p), Cardinality(CallTargets))

DistinctNamespaces == \A p, q \in Paths : p # q => files[p].namespace # files[q].namespace

\* no template reaches its own namespace
AcyclicGraph == \A p \in Paths : files[p].namespace \notin ReachNs(p)

\* nothing reachable from p lies on a cycle
AcyclicFrom(p) ==
    /\ \A n \in ReachNs(p) : Declares(n) # {} => n \notin ReachNs(LastDeclaring(n))
    /\ ~(files[p].namespace \in ReachNs(p) /\ LastDeclaring(files[p].namespace) = p)

-----------------------------------------------------------------------------
(* Claims on dependency resolution (SpecDeps) *)

\* the files whose namespace is reachable from the entry of the resolution
ReachableFiles == {p \in Paths : files[p].namespace \in ReachNs(res.entry)}

\* C6: for every candidate set with pairwise distinct namespaces and an acyclic
\* call graph, the internal dependency list of an entry file is exactly the
\* set of candidate files whose namespace is reachable from the entry by one
\* or more explicitly qualified calls, and the entry itself is not in it.
C6_TransitiveClosure ==
    (res # NoRes /\ DistinctNamespaces /\ AcyclicGraph) =>
        /\ res.outcome = "ok"
        /\ SeqToSet(res.deps) = ReachableFiles
        /\ Len(res.deps) = Cardinality(ReachableFiles)
        /\ res.entry \notin SeqToSet(res.deps)

\* the chain a -> b -> c of the specification resolved for a
C6_Witness ==
    /\ res.entry = PathA
    /\ DistinctNamespaces /\ AcyclicGraph
    /\ files[PathA].calls = <<"nb">>
    /\ files[PathB].calls = <<Local, "nc">>
    /\ res.deps = <<PathB, PathC>>

\* the namespaces called from the entry of the resolution, or from a template
\* reachable from it, that no candidate file declares
MissingCalled == {n \in ReachNs(res.entry) : Declares(n) = {}}

\* C8: a call of a namespace that no candidate file declares raises no error,
\* is not descended into, and adds no file to the dependency list: the
\* extracted calls and the dependency list are those of the declared
\* namespaces reachable from the entry.
C8_MissingNamespace ==
    (res # NoRes /\ MissingCalled # {}) =>
        /\ res.outcome # "threw"
        /\ AcyclicFrom(res.entry) =>
              /\ res.outcome = "ok"
              /\ SeqToSet(res.calls) = ReachNs(res.entry)
              /\ SeqToSet(res.deps) = ReachableFiles
              /\ \A p \in SeqToSet(res.deps) : files[p].namespace \notin MissingCalled

\* a calls the undeclared nc and the declared nb; only b.soy is a dependency
C8_Witness ==
    /\ res.entry = PathA
    /\ res.outcome = "ok"
    /\ files[PathC].namespace = "nd"
    /\ files[PathA].calls = <<"nc", "nb">>
    /\ files[PathB].calls = <<"nc">>
    /\ res.deps = <<PathB>>

\* ---------------------------------------------------------------------
\* Claims about the loader (Spec).  ev is the latest step of the loader.

\* the steps in which metalSoyLoader itself runs
StartKinds == {"return", "compile", "threw", "overflow"}

\* the invocations the compiler has been started for and has not finished
Pending == {i \in Slots : inv[i].st = "pending"}

\* C1 as stated: an invocation whose content is that of an earlier
\* invocation for the path which delivered an output, with no invocation for
\* the path pending, returns that output synchronously without compiling,
\* whatever other invocations for the path came in between.
C1_AsStated ==
    (ev.kind \in StartKinds /\ ev.priorAny # NoOut) =>
        /\ ev.kind = "return"
        /\ ev.result = ev.priorAny

\* C1 amended: when the latest invocation started for the path had the same
\* content, ran with no other invocation for the path pending and delivered
\* an output text, the next invocation for the path with that content
\* returns exactly this output synchronously: it asks for no callback and
\* starts no compilation.
C1_Idempotence ==
    (ev.kind \in StartKinds /\ ev.prior # NoOut) =>
        /\ ev.kind = "return"
        /\ ev.result = ev.prior
        /\ ~ev.async
        /\ ev.cb = <<>>
        /\ ev.read

C1_Witness ==
    /\ ev.kind = "return"
    /\ ev.path = PathB
    /\ ev.contents = "c2"
    /\ ev.prior = Compiled("c2")
    /\ ev.result = Compiled("c2")

\* C2: an invocation that finds a stored hash different from the hash of its
\* content gets no result from the lookup: the persisted output is not read,
\* nothing is returned synchronously, the asynchronous callback is obtained,
\* and once the dependencies are extracted the compiler is started with no
\* result yet.
C2_HashSensitivity ==
    (ev.kind \in StartKinds /\ ev.prevHash # NoHash /\ ev.prevHash # md5(ev.contents)) =>
        /\ ~ev.read
        /\ ev.result = Undefined
        /\ ev.kind # "return"
        /\ ev.async
        /\ fileHashMap[ev.path] = md5(ev.contents)
        /\ ev.kind = "compile" =>
              \E i \in Pending : /\ inv[i].path = ev.path
                                 /\ inv[i].contents = ev.contents
                                 /\ inv[i].result = Undefined

C2_Witness ==
    /\ ev.kind = "compile"
    /\ ev.path = PathB
    /\ ev.prevHash = md5("c1")
    /\ ev.contents = "c2"
    /\ soycache[PathB] = Compiled("c1")

\* C3 as stated: an invocation that finds no stored hash for its path is a
\* miss, also when the persistent cache holds an output for the path from an
\* earlier run: nothing is returned synchronously and the persisted output is
\* not used.
C3_AsStated ==
    (ev.kind \in StartKinds /\ ev.prevHash = NoHash) =>
        /\ ev.kind # "return"
        /\ ev.result = Undefined

\* C4 as stated: an invocation that returns a cached result never asks for
\* the callback; an invocation whose compiler stream fires its terminal event
\* calls the callback exactly once, with an error or with an output, never
\* with both.
C4_AsStated ==
    /\ ev.kind = "return" => (~ev.async /\ ev.cb = <<>>)
    /\ ev.kind \in {"end", "crash", "error"} =>
          /\ Len(ev.cb) = 1
          /\ ev.cb[1].err = NoErr \/ ev.cb[1].result = Undefined

\* C5: when the compiler stream emits an error the callback is called once
\* with exactly that error and no output, and the invocation ends; no step of
\* an invocation other than the end of its stream changes the persistent
\* cache, so an invocation that ends with an error has written nothing.
C5_ErrorHandling ==
    /\ [](ev.kind = "error" =>
            /\ ev.cb = <<[err |-> ev.emitted, result |-> Undefined]>>
            /\ ev.emitted \in Errors)
    /\ [][ev'.kind # "end" => soycache' = soycache]_vars
    /\ [][ev'.kind = "error" => /\ Cardinality(Pending') = Cardinality(Pending) - 1
                                /\ fileHashMap' = fileHashMap
                                /\ lastInv' = lastInv]_vars

C5_Witness ==
    /\ ev.kind = "error"
    /\ ev.emitted = "e2"
    /\ ev.result = Compiled("c1")
    /\ soycache[ev.path] = NoCacheFile

\* C7: an invocation whose lookup yields a result returns it synchronously
\* and does nothing else: the glob cache, the AST cache and the persistent
\* cache are left as they were, no dependency list is built and no
\* compilation is started.
C7_CacheHitShortCircuit ==
    /\ [](ev.kind \in StartKinds =>
            (Truthy(ev.result) <=> ev.kind = "return"))
    /\ [](ev.kind = "return" => (~ev.async /\ ev.cb = <<>> /\ ev.soyDeps = <<>>))
    /\ [][ev'.kind = "return" =>
            /\ globsCache' = globsCache
            /\ soyAstCache' = soyAstCache
            /\ soycache' = soycache
            /\ Pending' = Pending]_vars

\* a cached result is returned while the glob and the templates have never
\* been looked at
C7_Witness ==
    /\ ev.kind = "return"
    /\ ev.result = Compiled("c0")
    /\ globsCache[DefaultSrc] = NoGlob
    /\ soyAstCache[PathA] = NoAst


-----------------------------------------------------------------------------
(* The glob cache and the AST cache while the files change: resolveGlob,
   getParsedSoy and getParsedSoyByNamespace are called in any order, and
   between the calls templates are edited, created and removed. *)

\* what a template file can be during the run
FileForms ==
    [p \in Paths |->
        IF p = PathA THEN {SoyFile("na", <<"nb">>), SoyFile("nb", <<Local>>)}
        ELSE IF p = PathB THEN {SoyFile("nb", <<>>), Malformed}
        ELSE {NoFile, SoyFile("nb", <<"na">>), SoyFile("na", <<>>)}]

\* the namespaces looked up; no file declares "nx"
LookupNamespaces == {"na", "nb", "nx"}

\* nothing returned yet for a pattern, for a namespace
NoFirstList == <<<<"#none">>>>
NoFirstAst == [none |-> TRUE]

\* lookup: the latest call (op, its argument key, whether it threw, whether
\* the file system was scanned, the list or AST returned) and the first
\* result returned for every pattern and namespace
NoLookup ==
    [op |-> "none", key |-> <<>>, threw |-> FALSE, scanned |-> FALSE,
     list |-> <<>>, ast |-> NoAst,
     firstList |-> [pattern \in Patterns |-> NoFirstList],
     firstAst |-> [namespace \in LookupNamespaces |-> NoFirstAst]]

\* the module state nothing of the cache specification touches
CachesIdle ==
    /\ fileHashMap = <<>>
    /\ soycache = <<>>
    /\ inv = <<>>
    /\ ev = <<>>
    /\ lastInv = <<>>
    /\ res = NoRes

InitCaches ==
    /\ files \in [Paths -> UNION {FileForms[p] : p \in Paths}]
    /\ \A p \in Paths : files[p] \in FileForms[p]
    /\ soyAstCache = EmptyAstCache
    /\ globsCache = [pattern \in Patterns |-> NoGlob]
    /\ lookup = NoLookup
    /\ CachesIdle

\* a template is edited, created or removed
Touch(path, form) ==
    /\ form # files[path]
    /\ files' = [files EXCEPT ![path] = form]
    /\ lookup' = [lookup EXCEPT !.op = "touch", !.key = path, !.threw = FALSE,
                                !.scanned = FALSE, !.list = <<>>, !.ast = NoAst]
    /\ UNCHANGED <<soyAstCache, globsCache, fileHashMap, soycache, inv, ev, lastInv, res>>

\* a call of resolveGlob(pattern)
ResolveGlob(pattern) ==
    LET r == resolveGlob(globsCache, pattern)
    IN /\ globsCache' = r.cache
       /\ lookup' = [lookup EXCEPT !.op = "resolveGlob", !.key = pattern,
                                   !.threw = FALSE, !.scanned = r.scanned,
                                   !.list = r.list, !.ast = NoAst,
                                   !.firstList[pattern] =
                                       IF @ = NoFirstList THEN r.list ELSE @]
       /\ UNCHANGED <<files, soyAstCache, fileHashMap, soycache, inv, ev, lastInv, res>>

\* a call of getParsedSoy(filePath)
ParseSoy(filePath) ==
    LET r == getParsedSoy(soyAstCache, filePath)
    IN /\ soyAstCache' = r.cache
       /\ lookup' = [lookup EXCEPT !.op = "getParsedSoy", !.key = filePath,
                                   !.threw = r.threw, !.scanned = FALSE,
                                   !.list = <<>>, !.ast = r.ast]
       /\ UNCHANGED <<files, globsCache, fileHashMap, soycache, inv, ev, lastInv, res>>

\* a call of getParsedSoyByNamespace(namespace, SrcList)
Lookup(namespace) ==
    LET r == getParsedSoyByNamespace(soyAstCache, namespace, SrcList)
    IN /\ soyAstCache' = r.cache
       /\ lookup' = [lookup EXCEPT !.op = "getParsedSoyByNamespace",
                                   !.key = <<namespace>>,
                                   !.threw = r.threw, !.scanned = FALSE,
                                   !.list = <<>>, !.ast = r.ast,
                                   !.firstAst[namespace] =
                                       IF @ = NoFirstAst /\ ~r.threw THEN r.ast ELSE @]
       /\ UNCHANGED <<files, globsCache, fileHashMap, soycache, inv, ev, lastInv, res>>

NextCaches ==
    \/ \E path \in Paths : \E form \in FileForms[path] : Touch(path, form)
    \/ \E pattern \in Patterns : ResolveGlob(pattern)
    \/ \E filePath \in Paths : ParseSoy(filePath)
    \/ \E namespace \in LookupNamespaces : Lookup(namespace)

SpecCaches == InitCaches /\ [][NextCaches]_vars


\* ---------------------------------------------------------------------
\* Claims about the caches (SpecCaches).  lookup is the latest call.

\* C9: once resolveGlob has been called for a pattern, the list stored by that
\* first call stays in the glob cache, and every later call for the pattern
\* returns this list and does not scan the file system, also when the first
\* list is empty and whatever files have been created or removed since.
C9_GlobMemoization ==
    /\ [](\A pattern \in Patterns :
            lookup.firstList[pattern] # NoFirstList =>
                globsCache[pattern] = lookup.firstList[pattern])
    /\ [](lookup.op = "resolveGlob" => lookup.list = lookup.firstList[lookup.key])
    /\ [][(lookup'.op = "resolveGlob" /\ lookup.firstList[lookup'.key] # NoFirstList) =>
            /\ ~lookup'.scanned
            /\ lookup'.list = lookup.firstList[lookup'.key]
            /\ globsCache' = globsCache]_vars

\* the pattern matched nothing at the first call; c.soy exists now, and the
\* call returns the empty list without a scan
C9_Witness ==
    /\ lookup.op = "resolveGlob"
    /\ lookup.key = OtherSrc
    /\ ~lookup.scanned
    /\ lookup.list = <<>>
    /\ files[PathC].exists

\* the positions of SrcList whose cached AST declares the namespace
DeclaringAt(cache, namespace) ==
    {i \in 1..Len(SrcList) :
        cache[SrcList[i]] # NoAst /\ cache[SrcList[i]].namespace = namespace}

\* the positions of SrcList whose file on disk declares the namespace
DeclaringOnDisk(namespace) ==
    {i \in 1..Len(SrcList) :
        CanParse(files[SrcList[i]]) /\ files[SrcList[i]].namespace = namespace}

\* C10: a lookup by namespace that returns yields the AST of the last file of
\* the candidate list whose template declares the namespace (none when no
\* template does); a lookup that starts from an empty AST cache yields the
\* parse of the last file that declares it on disk; and every lookup of the
\* namespace yields the AST the first one yielded.
C10_DuplicateNamespace ==
    /\ []((lookup.op = "getParsedSoyByNamespace" /\ ~lookup.threw) =>
            LET at == DeclaringAt(soyAstCache, lookup.key[1])
            IN /\ at = {} => lookup.ast = NoAst
               /\ at # {} =>
                     lookup.ast = soyAstCache[SrcList[CHOOSE i \in at : \A j \in at : j <= i]]
               /\ lookup.ast = lookup.firstAst[lookup.key[1]])
    /\ [][(/\ lookup'.op = "getParsedSoyByNamespace"
           /\ ~lookup'.threw
           /\ soyAstCache = EmptyAstCache) =>
            LET at == DeclaringOnDisk(lookup'.key[1])
            IN at # {} =>
                  lookup'.ast = soyparser(files[SrcList[CHOOSE i \in at : \A j \in at : j <= i]])]_vars

\* a.soy, b.soy and c.soy were all parsed declaring "nb"; c.soy has been
\* removed since, and the lookup still yields its AST
C10_Witness ==
    /\ lookup.op = "getParsedSoyByNamespace"
    /\ lookup.key = <<"nb">>
    /\ soyAstCache[PathA] = soyparser(SoyFile("nb", <<Local>>))
    /\ soyAstCache[PathB] = soyparser(SoyFile("nb", <<>>))
    /\ lookup.ast = soyparser(SoyFile("nb", <<"na">>))
    /\ lookup.firstAst["nb"] = soyparser(SoyFile("nb", <<"na">>))
    /\ files[PathC] = NoFile


\* C11: an AST stored in soyAstCache is never changed or removed by any later
\* step, and a getParsedSoy for a path that has a stored AST returns exactly
\* that AST without raising an error, whatever the file is by then (edited,
\* malformed or removed).
C11_AstCacheStability ==
    /\ [][\A p \in Paths : soyAstCache[p] # NoAst => soyAstCache'[p] = soyAstCache[p]]_vars
    /\ [][(lookup'.op = "getParsedSoy" /\ soyAstCache[lookup'.key] # NoAst) =>
            /\ ~lookup'.threw
            /\ lookup'.ast = soyAstCache[lookup'.key]
            /\ soyAstCache' = soyAstCache]_vars

\* c.soy was parsed and has been removed since; getParsedSoy still returns
\* its AST
C11_Witness ==
    /\ lookup.op = "getParsedSoy"
    /\ lookup.key = PathC
    /\ ~lookup.threw
    /\ lookup.ast = soyparser(SoyFile("nb", <<"na">>))
    /\ files[PathC] = NoFile


\* C12: every invocation, whether its lookup is a hit, a miss by hash
\* mismatch or a miss by a failed read, leaves the hash of its content as the
\* stored hash of its path and the stored hashes of the other paths as they
\* were; no other step (data, end, error) changes the hash map.  So the
\* stored hash of a path is always the hash of the content of the latest
\* invocation for it, also after that invocation's compilation has failed.
C12_StoredHashTracksLookup ==
    /\ [](ev.kind \in StartKinds => fileHashMap[ev.path] = md5(ev.contents))
    /\ [][ev'.kind \in StartKinds =>
            fileHashMap' = [fileHashMap EXCEPT ![ev'.path] = md5(ev'.contents)]]_vars
    /\ [][ev'.kind \notin StartKinds => fileHashMap' = fileHashMap]_vars

\* the compilation of (b.soy, c2) has failed: the stored hash is that of c2
\* while the persistent cache holds the output for c1
C12_Witness ==
    /\ ev.kind = "error"
    /\ ev.path = PathB
    /\ ev.contents = "c2"
    /\ fileHashMap[PathB] = md5("c2")
    /\ soycache[PathB] = Compiled("c1")
    /\ Pending = {}


\* ---------------------------------------------------------------------
\* Further claims on dependency resolution (SpecDeps)

\* C13 as stated: call extraction comes to an end only when the graph of
\* qualified calls reachable from the entry template is acyclic, and then it
\* returns; on a graph with a cycle it never ends.
C13_AsStated ==
    res # NoRes => (AcyclicFrom(res.entry) /\ res.outcome = "ok")

\* C13 amended: call extraction returns its call list exactly when the graph
\* of qualified calls reachable from the entry template is acyclic; on a
\* graph with a cycle (a template calling its own namespace included) the
\* recursion is unbounded and ends only by exhausting the call stack, with no
\* call list and no dependency list produced.
C13_Termination ==
    res # NoRes =>
        /\ AcyclicFrom(res.entry) <=> res.outcome = "ok"
        /\ ~AcyclicFrom(res.entry) =>
              (res.outcome = "overflow" /\ res.calls = <<>> /\ res.deps = <<>>)

\* b.soy calls its own namespace, which no other file declares
C13_Witness ==
    /\ res.entry = PathB
    /\ files[PathB].namespace = "nb"
    /\ files[PathC].namespace = "nc"
    /\ files[PathB].calls = <<"nb">>
    /\ res.outcome = "overflow"


-----------------------------------------------------------------------------
(* Dependency resolution over four candidate files, two of which may declare
   the same namespace *)

PathD == Soy("d")

\* srcPaths with a fourth file
DupList == <<PathA, PathB, PathC, PathD>>

\* call lists over a set of targets
CallListsOver(targets) == UNION {[1..n -> targets] : n \in 0..MaxCallLen}

\* a.soy calls nb or nd; b.soy declares nb and calls nd; c.soy, later in the
\* list, declares nb or nc; d.soy declares nd
InitDups ==
    /\ \E nsC \in {"nb", "nc"}, ca \in CallListsOver({"nb", "nd"}),
          cb \in CallListsOver({"nd", Local}), cc \in CallListsOver({"nd"}) :
          files = [p \in SeqToSet(DupList) |->
                      IF p = PathA THEN SoyFile("na", ca)
                      ELSE IF p = PathB THEN SoyFile("nb", cb)
                      ELSE IF p = PathC THEN SoyFile(nsC, cc)
                      ELSE SoyFile("nd", <<>>)]
    /\ soyAstCache = [p \in SeqToSet(DupList) |-> NoAst]
    /\ res = NoRes
    /\ LoaderIdle

\* metalSoyLoader lines 40-45 for one entry template over DupList
ResolveDups(entry) ==
    LET r == internalSoyDeps(soyAstCache, entry, DupList)
    IN /\ res = NoRes
       /\ soyAstCache' = r.cache
       /\ res' = [entry |-> entry, outcome |-> r.outcome, calls |-> r.calls, deps |-> r.deps]
       /\ UNCHANGED <<files, globsCache, fileHashMap, soycache, inv, ev, lastInv, lookup>>

NextDups == \E entry \in SeqToSet(DupList) : ResolveDups(entry)

SpecDups == InitDups /\ [][NextDups]_vars

\* the candidate files that declare namespace n
DeclaringFiles(n) == {p \in DOMAIN files : files[p].namespace = n}

\* C14 as stated: when the extraction returns (the call graph is acyclic;
\* files may share a namespace), every candidate file declaring a namespace
\* that a file of the dependency list calls with a qualifier is itself in
\* the dependency list.
C14_AsStated ==
    (res # NoRes /\ res.outcome = "ok") =>
        \A F \in SeqToSet(res.deps) : \A N \in QualifiedCalls(F) :
            DeclaringFiles(N) \subseteq SeqToSet(res.deps)

\* ---------------------------------------------------------------------
\* Further claims about the loader (Spec)

\* C15: when the stream of an invocation that produced an output ends and
\* the output is written, the callback is called once with that output and
\* at that moment the persistent cache holds exactly the output delivered;
\* when the write fails the callback is not called and the persistent cache
\* is left as it was.
C15_PersistBeforeNotify ==
    /\ []((ev.kind = "end" /\ ev.result # Undefined) =>
            /\ ev.cb = <<[err |-> NoErr, result |-> ev.result]>>
            /\ soycache[ev.path] = ev.cb[1].result)
    /\ [](ev.kind = "crash" => ev.cb = <<>>)
    /\ [][ev'.kind = "crash" => soycache' = soycache]_vars

\* the output for c2 is delivered and persisted over the output for c1
\* while the stored hash is already that of a later invocation with c1
C15_Witness ==
    /\ ev.kind = "end"
    /\ ev.path = PathB
    /\ ev.cb = <<[err |-> NoErr, result |-> Compiled("c2")]>>
    /\ soycache[PathB] = Compiled("c2")
    /\ fileHashMap[PathB] = md5("c1")


\* C16 as stated: on a miss that reaches the compiler every configured
\* external dependency pattern has been resolved through resolveGlob, and
\* the list handed to compileSoy consists of file paths only.
C16_AsStated ==
    ev.kind = "compile" =>
        /\ \A pattern \in SeqToSet(ev.external) : globsCache[pattern] # NoGlob
        /\ SeqToSet(ev.soyDeps) \subseteq Paths

\* the part of the list handed to compileSoy that follows the external one
InternalPart == SubSeq(ev.soyDeps, Len(ev.external) + 1, Len(ev.soyDeps))

\* the files of the resolved src list whose template the entry template
\* calls (in the runs of the loader no template calls further than that)
CalledFiles ==
    SelectSeq(globsCache[DefaultSrc],
              LAMBDA p : soyAstCache[p].namespace \in SeqToSet(soyAstCache[ev.path].calls))

\* C16 amended: on a miss that reaches the compiler only the src pattern is
\* resolved through resolveGlob; the list handed to compileSoy is the
\* configured external dependency patterns, unresolved and in the configured
\* order, followed by the internal dependency files; with an empty external
\* configuration it is exactly the internal dependency list.
C16_CombinedDependencyList ==
    /\ [](ev.kind = "compile" =>
            /\ globsCache[DefaultSrc] # NoGlob
            /\ Len(ev.soyDeps) >= Len(ev.external)
            /\ SubSeq(ev.soyDeps, 1, Len(ev.external)) = ev.external
            /\ InternalPart = CalledFiles
            /\ ev.external = <<>> => ev.soyDeps = CalledFiles)
    /\ [][ev'.kind = "compile" =>
            \A pattern \in Patterns \ {DefaultSrc} :
                globsCache'[pattern] = globsCache[pattern]]_vars

C16_Witness ==
    /\ ev.kind = "compile"
    /\ ev.path = PathA
    /\ ev.external = <<DefaultSoyDeps>>
    /\ ev.soyDeps = <<DefaultSoyDeps, PathB>>
    /\ globsCache[DefaultSoyDeps] = NoGlob

-----------------------------------------------------------------------------
(* The entry path of an invocation: one resource path, normalised once *)

MaxPathLen == 6

PathChars == {"a", ".", "j", "s", "/"}

RECURSIVE StringsUpTo(_)
StringsUpTo(n) ==
    IF n = 0 THEN {<<>>}
    ELSE StringsUpTo(n - 1) \cup
         {Append(s, c) : s \in {t \in StringsUpTo(n - 1) : Len(t) = n - 1}, c \in PathChars}

\* this.resourcePath names a file: not empty, no trailing separator
ResourcePaths ==
    {s \in StringsUpTo(MaxPathLen) : Len(s) > 0 /\ s[Len(s)] # "/"}

InitPath ==
    /\ \E raw \in ResourcePaths : ev = [kind |-> "init", raw |-> raw, path |-> <<>>]
    /\ files = <<>>
    /\ soyAstCache = <<>>
    /\ globsCache = <<>>
    /\ fileHashMap = <<>>
    /\ soycache = <<>>
    /\ inv = <<>>
    /\ lastInv = <<>>
    /\ lookup = <<>>
    /\ res = NoRes

\* metalSoyLoader lines 23-27 applied to this.resourcePath
Normalize ==
    /\ ev.kind = "init"
    /\ ev' = [kind |-> "normalized", raw |-> ev.raw, path |-> normalizedPath(ev.raw)]
    /\ UNCHANGED <<files, soyAstCache, globsCache, fileHashMap, soycache, inv,
                   lastInv, lookup, res>>

NextPath == Normalize

SpecPath == InitPath /\ [][NextPath]_vars

EndsWith(s, t) ==
    Len(s) >= Len(t) /\ SubSeq(s, Len(s) - Len(t) + 1, Len(s)) = t

\* C17: a resource path ending in ".js" is used with exactly that trailing
\* suffix removed, every earlier character kept, also when ".js" occurs earlier
\* in the path; a resource path not ending in ".js" is used unchanged
C17_AsStated ==
    ev.kind = "normalized" =>
        IF EndsWith(ev.raw, DotJs)
        THEN ev.path = SubSeq(ev.raw, 1, Len(ev.raw) - Len(DotJs))
        ELSE ev.path = ev.raw

-----------------------------------------------------------------------------
(* One invocation at a time, from an empty persistent cache: each invocation
   returns, throws, or has its compilation ended by a data event followed by
   a successful end, or by an error, before the next invocation starts *)

InitSeq ==
    /\ Init
    /\ soycache = [p \in Paths |-> NoCacheFile]

NextSeq ==
    \/ /\ Pending = {}
       /\ \E raw \in RawPaths, options \in LoaderOptionSets :
             \E contents \in ContentsOf(raw) : metalSoyLoader(raw, contents, options)
    \/ \E slot \in Slots, text \in UNION {CompilerTexts(c) : c \in Contents} :
          onData(slot, text)
    \/ \E slot \in Pending : inv[slot].result # Undefined /\ onEnd(slot, TRUE)
    \/ \E slot \in Slots, err \in Errors : onError(slot, err)

SpecSeq == InitSeq /\ [][NextSeq]_vars

\* C18: in a run that starts with an empty persistent cache and runs its
\* invocations strictly one after another, an invocation that returns a cached
\* output returns the compiler's output for exactly its own content, after any
\* sequence of contents and of compiler successes and errors for the path
C18_AsStated ==
    ev.kind = "return" => ev.result = Compiled(ev.contents)

-----------------------------------------------------------------------------
(* Invocations that may overlap and whose compilations all succeed: every
   stream fires a data event and then an end event, and the write succeeds *)

NextOverlap ==
    \/ \E raw \in RawPaths, options \in LoaderOptionSets :
          \E contents \in ContentsOf(raw) : metalSoyLoader(raw, contents, options)
    \/ \E slot \in Slots, text \in UNION {CompilerTexts(c) : c \in Contents} :
          onData(slot, text)
    \/ \E slot \in Pending : inv[slot].result # Undefined /\ onEnd(slot, TRUE)

SpecOverlap == Init /\ [][NextOverlap]_vars

\* the invocation whose end event is the latest step overlapped with another
\* invocation for its path
EndedOverlapped == ev.kind = "end" /\ lastInv[ev.path] = NoInv

\* C19: when invocations for one path with different contents overlap and
\* all compilations succeed, in either completion order, each caller receives
\* the output compiled from its own content, and once none is pending the
\* persisted output for the path is the output compiled from the content
\* whose hash the hash map holds
C19_AsStated ==
    EndedOverlapped =>
        /\ ev.cb = <<[err |-> NoErr, result |-> Compiled(ev.contents)]>>
        /\ (\A i \in Pending : inv[i].path # ev.path) =>
              \E c \in Contents : /\ fileHashMap[ev.path] = md5(c)
                                  /\ soycache[ev.path] = Compiled(c)

-----------------------------------------------------------------------------
(* Completion.  The callback is called only inside the handlers of the
   stream's terminal events, and a handler runs to completion: an invocation
   whose terminal event has fired is notified when the handler's step is
   taken, or never. *)

TerminalKinds == {"end", "crash", "error"}

\* C20: an invocation that reached compileSoy (its parsing succeeded and its
\* call graph is acyclic) and whose stream fires a terminal event, end with or
\* without a preceding data event, or error, has its caller notified; without
\* a terminal event the caller is not notified
C20_AsStated ==
    /\ ev.kind \in TerminalKinds => Len(ev.cb) >= 1
    /\ ev.kind \notin TerminalKinds => ev.cb = <<>>


====
